---- MODULE Spec2Model ----
(***************************************************************************)
(* Expression trees of faunadb/expr.go: the expression variants, the       *)
(* fixed-arity builders fn1..fn4 with their optional parameters, and JSON  *)
(* serialization of the resulting trees through encoding/json.             *)
(*                                                                         *)
(* unescapedObj is a Go map, hence a reference: the model keeps every      *)
(* unescapedObj in `heap` and an expression holds its address.  Raw user   *)
(* values (scalars, Obj, Arr) are values the caller owns.                  *)
(***************************************************************************)
EXTENDS Integers, Sequences, FiniteSets, TLC

VARIABLES heap, call, ser

vars == <<heap, call, ser>>

(***************************************************************************)
(* Bounds and alphabets                                                    *)
(***************************************************************************)
\* longest raw array and longest list of optional parameters drawn as input
MaxLen == 2
MaxOpts == 2
\* most unescapedObj maps a session allocates
MaxNodes == 2

\* map keys in the byte order encoding/json sorts them in
KeyOrder == <<"data", "name", "query", "ttl">>
Keys == {KeyOrder[i] : i \in 1..Len(KeyOrder)}
\* captured construction errors
Errs == {"e1", "e2"}

(***************************************************************************)
(* Values.  Every record has the field t; a field name always holds the    *)
(* same kind of payload.                                                   *)
(*   int, str   opaque JSON-representable scalars                          *)
(*   bad        an opaque value that cannot be converted (wrap fails)      *)
(*   Obj, Arr   the raw user-facing map and slice                          *)
(*   ref        an unescapedObj: the address of its map in heap            *)
(*   uarr       an unescapedArr                                            *)
(*   inv        an invalidExpr with its captured error                     *)
(***************************************************************************)
IntV(n) == [t |-> "int", n |-> n]
StrV(s) == [t |-> "str", v |-> s]
Bad(e) == [t |-> "bad", err |-> e]
Obj(m) == [t |-> "Obj", m |-> m]
Arr(s) == [t |-> "Arr", s |-> s]
unescapedObj(a) == [t |-> "ref", a |-> a]
unescapedArr(s) == [t |-> "uarr", s |-> s]
invalidExpr(e) == [t |-> "inv", err |-> e]
Nil == [t |-> "nil"]

\* the empty map, and a map with one more assignment m[k] = v
EmptyMap == [k \in {} |-> Nil]
MapSet(m, k, v) == [x \in (DOMAIN m) \cup {k} |-> IF x = k THEN v ELSE m[x]]

\* error values: <<>> is nil, <<e>> the error e, and <<T>> \o err the
\* *json.MarshalerError{Type: T, Err: err}
NoErr == <<>>
MarshalerError(typ, err) == <<typ>> \o err
\* errors.Unwrap down to the innermost error
Cause(err) == IF err = NoErr THEN NoErr ELSE <<err[Len(err)]>>

(***************************************************************************)
(* wrap: raw value -> expression.  A raw Obj becomes a new unescapedObj    *)
(* and a raw Arr a new unescapedArr, their values wrapped recursively; a   *)
(* value that cannot be converted becomes an invalidExpr holding the       *)
(* error; a pre-wrapped expression is returned as it is; any other value   *)
(* is an opaque literal.  The result is the expression e and the heap h    *)
(* with the maps wrap allocated.                                           *)
(***************************************************************************)
RECURSIVE wrap(_, _), wrapObj(_, _, _, _), wrapArr(_, _, _, _)

wrapObj(m, idx, h, acc) ==
  IF idx > Len(KeyOrder) THEN [m |-> acc, h |-> h]
  ELSE IF KeyOrder[idx] \notin DOMAIN m THEN wrapObj(m, idx + 1, h, acc)
  ELSE LET w == wrap(m[KeyOrder[idx]], h)
       IN  wrapObj(m, idx + 1, w.h, MapSet(acc, KeyOrder[idx], w.e))

wrapArr(s, idx, h, acc) ==
  IF idx > Len(s) THEN [s |-> acc, h |-> h]
  ELSE LET w == wrap(s[idx], h)
       IN  wrapArr(s, idx + 1, w.h, Append(acc, w.e))

wrap(i, h) ==
  CASE i.t = "Obj" ->
         LET r == wrapObj(i.m, 1, h, EmptyMap)
         IN  [e |-> unescapedObj(Len(r.h) + 1), h |-> Append(r.h, r.m)]
    [] i.t = "Arr" ->
         LET r == wrapArr(i.s, 1, h, <<>>)
         IN  [e |-> unescapedArr(r.s), h |-> r.h]
    [] i.t = "bad" -> [e |-> invalidExpr(i.err), h |-> h]
    [] OTHER -> [e |-> i, h |-> h]

(***************************************************************************)
(* encoding/json.  A result is the bytes out ("" is nil) and the error.    *)
(***************************************************************************)
RECURSIVE encode(_, _), encodeMap(_, _, _, _), encodeArr(_, _, _, _)
RECURSIVE ObjMarshalJSON(_, _), ArrMarshalJSON(_, _)

\* mutants of invalidExpr.MarshalJSON: it reports an error of its own; it
\* serializes the node as null
invalidExprMarshalJSONOwnError(inv) ==
  [out |-> "", err |-> <<"invalid expression">>]
invalidExprMarshalJSONNull(inv) == [out |-> "null", err |-> NoErr]

\* func (inv invalidExpr) MarshalJSON() ([]byte, error)
invalidExprMarshalJSON(inv) == [out |-> "", err |-> <<inv.err>>]

\* json's marshalerEncoder: the result r of a MarshalJSON method of type typ
marshalerEncoder(typ, r) ==
  IF r.err # NoErr THEN [out |-> "", err |-> MarshalerError(typ, r.err)]
  ELSE IF r.out = ""
  THEN [out |-> "", err |-> MarshalerError(typ, <<"unexpected end of JSON input">>)]
  ELSE r

\* json's mapEncoder: the keys sorted, the first failing value aborts
encodeMap(m, idx, h, acc) ==
  IF idx > Len(KeyOrder) THEN [out |-> "{" \o acc \o "}", err |-> NoErr]
  ELSE IF KeyOrder[idx] \notin DOMAIN m THEN encodeMap(m, idx + 1, h, acc)
  ELSE LET r == encode(m[KeyOrder[idx]], h)
           sep == IF acc = "" THEN "" ELSE ","
       IN  IF r.err # NoErr THEN [out |-> "", err |-> r.err]
           ELSE encodeMap(m, idx + 1, h,
                          acc \o sep \o ToString(KeyOrder[idx]) \o ":" \o r.out)

\* json's sliceEncoder
encodeArr(s, idx, h, acc) ==
  IF idx > Len(s) THEN [out |-> "[" \o acc \o "]", err |-> NoErr]
  ELSE LET r == encode(s[idx], h)
           sep == IF acc = "" THEN "" ELSE ","
       IN  IF r.err # NoErr THEN [out |-> "", err |-> r.err]
           ELSE encodeArr(s, idx + 1, h, acc \o sep \o r.out)

\* json's encoder of one expression: Obj, Arr and invalidExpr are
\* json.Marshalers, unescapedObj and unescapedArr a plain map and slice
encode(v, h) ==
  CASE v.t = "int" -> [out |-> ToString(v.n), err |-> NoErr]
    [] v.t = "str" -> [out |-> ToString(v.v), err |-> NoErr]
    [] v.t = "ref" -> encodeMap(h[v.a], 1, h, "")
    [] v.t = "uarr" -> encodeArr(v.s, 1, h, "")
    [] v.t = "inv" -> marshalerEncoder("invalidExpr", invalidExprMarshalJSON(v))
    [] v.t = "Obj" -> marshalerEncoder("Obj", ObjMarshalJSON(v, h))
    [] v.t = "Arr" -> marshalerEncoder("Arr", ArrMarshalJSON(v, h))

\* json.Marshal
jsonMarshal(v, h) == encode(v, h)

\* mutants of Obj.MarshalJSON: it drops the error of json.Marshal; it nests
\* the object under the key "object"
ObjMarshalJSONNoError(obj, h) ==
  LET w == wrap(obj, h) IN [out |-> jsonMarshal(w.e, w.h).out, err |-> NoErr]
ObjMarshalJSONNested(obj, h) ==
  LET w == wrap(obj, h)
      r == jsonMarshal(w.e, w.h)
  IN  IF r.err # NoErr THEN r
      ELSE [out |-> "{" \o ToString("object") \o ":" \o r.out \o "}", err |-> NoErr]

\* func (obj Obj) MarshalJSON() ([]byte, error)
ObjMarshalJSON(obj, h) == LET w == wrap(obj, h) IN jsonMarshal(w.e, w.h)

\* func (arr Arr) MarshalJSON() ([]byte, error)
ArrMarshalJSON(arr, h) == LET w == wrap(arr, h) IN jsonMarshal(w.e, w.h)

\* mutant of invalidExpr.String: the text of the captured error
invalidExprStringMessage(inv) == inv.err

\* the String methods: the bytes of the serialization, the error dropped
unescapedObjString(obj, h) == jsonMarshal(obj, h).out
unescapedArrString(arr, h) == jsonMarshal(arr, h).out
invalidExprString(inv) == invalidExprMarshalJSON(inv).out
ObjString(obj, h) == ObjMarshalJSON(obj, h).out
ArrString(arr, h) == ArrMarshalJSON(arr, h).out

(***************************************************************************)
(* The builders                                                            *)
(***************************************************************************)
\* an optional parameter [k, v] is the closure that sets fn[k] = wrap(v)
OptionalParameter(option, fn, h) ==
  LET w == wrap(option.v, h)
  IN  [w.h EXCEPT ![fn] = MapSet(@, option.k, w.e)]

\* mutant of the loop of applyOptionals: the options from last to first
RECURSIVE optionsLoopReversed(_, _, _, _, _)
optionsLoopReversed(options, i, fn, h, log) ==
  IF i > Len(options) THEN [h |-> h, log |-> log]
  ELSE LET j == Len(options) + 1 - i
       IN  optionsLoopReversed(options, i + 1, fn,
                               OptionalParameter(options[j], fn, h), Append(log, j))

RECURSIVE optionsLoop(_, _, _, _, _)
\* for _, option := range options { option(fn) }; log lists the options
\* applied, in the order they were
optionsLoop(options, i, fn, h, log) ==
  IF i > Len(options) THEN [h |-> h, log |-> log]
  ELSE optionsLoop(options, i + 1, fn,
                   OptionalParameter(options[i], fn, h), Append(log, i))

\* func applyOptionals(options []OptionalParameter, fn unescapedObj) Expr,
\* fn the address of the map; pre is the map as it was passed in
applyOptionals(options, fn, h) ==
  LET r == optionsLoop(options, 1, fn, h, <<>>)
  IN  [e |-> unescapedObj(fn), h |-> r.h, log |-> r.log, pre |-> h[fn]]

\* mutant of the map literal: a key already set keeps its first value
RECURSIVE literalLoopFirstWins(_, _, _, _)
literalLoopFirstWins(kvs, i, h, acc) ==
  IF i > Len(kvs) THEN [m |-> acc, h |-> h]
  ELSE LET w == wrap(kvs[i].v, h)
       IN  literalLoopFirstWins(kvs, i + 1, w.h,
             IF kvs[i].k \in DOMAIN acc THEN acc ELSE MapSet(acc, kvs[i].k, w.e))

RECURSIVE literalLoop(_, _, _, _)
literalLoop(kvs, i, h, acc) ==
  IF i > Len(kvs) THEN [m |-> acc, h |-> h]
  ELSE LET w == wrap(kvs[i].v, h)
       IN  literalLoop(kvs, i + 1, w.h, MapSet(acc, kvs[i].k, w.e))

\* mutant of the map literal: one map is kept and used again by every call
mapLiteralReuse(kvs, h) ==
  IF h = <<>>
  THEN LET r == literalLoop(kvs, 1, h, EmptyMap)
       IN  [fn |-> Len(r.h) + 1, h |-> Append(r.h, r.m)]
  ELSE LET r == literalLoop(kvs, 1, h, h[Len(h)])
       IN  [fn |-> Len(h), h |-> [r.h EXCEPT ![Len(h)] = r.m]]

\* the composite literal unescapedObj{k1: wrap(v1), ...}: the elements are
\* evaluated and assigned in source order into a new map
mapLiteral(kvs, h) ==
  LET r == literalLoop(kvs, 1, h, EmptyMap)
  IN  [fn |-> Len(r.h) + 1, h |-> Append(r.h, r.m)]

KV(k, v) == [k |-> k, v |-> v]

\* mutant of fn1: a value that cannot be wrapped is returned at once
fn1FailFast(k1, v1, options, h) ==
  LET l == mapLiteral(<<[k |-> k1, v |-> v1]>>, h)
  IN  IF l.h[l.fn][k1].t = "inv"
      THEN [e |-> l.h[l.fn][k1], h |-> h, log |-> <<>>, pre |-> l.h[l.fn]]
      ELSE applyOptionals(options, l.fn, l.h)

fn1(k1, v1, options, h) ==
  LET l == mapLiteral(<<KV(k1, v1)>>, h)
  IN  applyOptionals(options, l.fn, l.h)

\* mutant of fn2: the second key gets the first value
fn2Swapped(k1, v1, k2, v2, options, h) ==
  LET l == mapLiteral(<<[k |-> k1, v |-> v1], [k |-> k2, v |-> v1]>>, h)
  IN  applyOptionals(options, l.fn, l.h)

fn2(k1, v1, k2, v2, options, h) ==
  LET l == mapLiteral(<<KV(k1, v1), KV(k2, v2)>>, h)
  IN  applyOptionals(options, l.fn, l.h)

fn3(k1, v1, k2, v2, k3, v3, options, h) ==
  LET l == mapLiteral(<<KV(k1, v1), KV(k2, v2), KV(k3, v3)>>, h)
  IN  applyOptionals(options, l.fn, l.h)

fn4(k1, v1, k2, v2, k3, v3, k4, v4, options, h) ==
  LET l == mapLiteral(<<KV(k1, v1), KV(k2, v2), KV(k3, v3), KV(k4, v4)>>, h)
  IN  applyOptionals(options, l.fn, l.h)

(***************************************************************************)
(* Reading a tree                                                          *)
(***************************************************************************)
RECURSIVE Nodes(_, _), Tree(_, _)

Children(v, h) ==
  CASE v.t = "ref" -> {h[v.a][k] : k \in DOMAIN h[v.a]}
    [] v.t = "Obj" -> {v.m[k] : k \in DOMAIN v.m}
    [] v.t \in {"uarr", "Arr"} -> {v.s[i] : i \in 1..Len(v.s)}
    [] OTHER -> {}

\* v and every value below it
Nodes(v, h) == {v} \cup UNION {Nodes(c, h) : c \in Children(v, h)}

\* the tree below v with every address replaced by the map it names
Tree(v, h) ==
  CASE v.t = "ref" ->
         [t |-> "unescapedObj", m |-> [k \in DOMAIN h[v.a] |-> Tree(h[v.a][k], h)]]
    [] v.t = "Obj" -> [t |-> "Obj", m |-> [k \in DOMAIN v.m |-> Tree(v.m[k], h)]]
    [] v.t \in {"uarr", "Arr"} ->
         [t |-> v.t, s |-> [i \in 1..Len(v.s) |-> Tree(v.s[i], h)]]
    [] OTHER -> v

\* the invalid nodes below v, and the errors they captured
Invalid(v, h) == {n \in Nodes(v, h) : n.t = "inv"}
Captured(v, h) == {n.err : n \in Invalid(v, h)}
\* a raw value that wrap cannot convert occurs in v
Unsupported(v, h) == {n.err : n \in {x \in Nodes(v, h) : x.t = "bad"}}

(***************************************************************************)
(* State: heap, the unescapedObj maps by address; call, the last builder   *)
(* call with its arguments and result; ser, the last serialization.        *)
(***************************************************************************)
NoCall == [op |-> "none", kvs |-> <<>>, options |-> <<>>, ret |-> Nil,
           log |-> <<>>, pre |-> EmptyMap]
NoSer == [op |-> "none", arg |-> Nil, out |-> "", err |-> NoErr]

Init == heap = <<>> /\ call = NoCall /\ ser = NoSer

Built(op, kvs, options, r) ==
  /\ heap' = r.h
  /\ call' = [op |-> op, kvs |-> kvs, options |-> options, ret |-> r.e,
              log |-> r.log, pre |-> r.pre]
  /\ ser' = NoSer

\* a call of fnN, when `when` holds, with the keys k drawn from KR, the
\* values v from VR and the optional parameters from OS
Fn1(when, KR, VR, OS) ==
  /\ when
  /\ \E k \in KR, v \in VR, options \in OS :
       Built("fn1", <<KV(k[1], v[1])>>, options,
             fn1(k[1], v[1], options, heap))

Fn2(when, KR, VR, OS) ==
  /\ when
  /\ \E k \in KR, v \in VR, options \in OS :
       Built("fn2", <<KV(k[1], v[1]), KV(k[2], v[2])>>, options,
             fn2(k[1], v[1], k[2], v[2], options, heap))

Fn3(when, KR, VR, OS) ==
  /\ when
  /\ \E k \in KR, v \in VR, options \in OS :
       Built("fn3", <<KV(k[1], v[1]), KV(k[2], v[2]), KV(k[3], v[3])>>, options,
             fn3(k[1], v[1], k[2], v[2], k[3], v[3], options, heap))

Fn4(when, KR, VR, OS) ==
  /\ when
  /\ \E k \in KR, v \in VR, options \in OS :
       Built("fn4", <<KV(k[1], v[1]), KV(k[2], v[2]), KV(k[3], v[3]),
                      KV(k[4], v[4])>>, options,
             fn4(k[1], v[1], k[2], v[2], k[3], v[3], k[4], v[4], options, heap))

\* the values at hand: the nodes built so far, the arguments of the last
\* call, and everything below them
AtHand ==
  UNION ({Nodes(unescapedObj(a), heap) : a \in 1..Len(heap)}
         \cup {Nodes(call.kvs[i].v, heap) : i \in 1..Len(call.kvs)})

\* a serialization reads the heap and changes nothing, so the ones taken
\* from the state a builder left reach every result
Serialized(op, x, r) ==
  /\ ser = NoSer
  /\ ser' = [op |-> op, arg |-> x, out |-> r.out, err |-> r.err]
  /\ UNCHANGED <<heap, call>>

Said(op, x, str) == Serialized(op, x, [out |-> str, err |-> NoErr])

\* json.Marshal(x) of an expression x
Marshal ==
  \E x \in AtHand :
    /\ x.t \in {"ref", "uarr", "inv", "Obj", "Arr"}
    /\ Serialized("json.Marshal", x, jsonMarshal(x, heap))

InvalidExprMarshalJSON ==
  \E x \in AtHand :
    x.t = "inv" /\ Serialized("invalidExpr.MarshalJSON", x, invalidExprMarshalJSON(x))

ObjectMarshalJSON ==
  \E x \in AtHand :
    x.t = "Obj" /\ Serialized("Obj.MarshalJSON", x, ObjMarshalJSON(x, heap))

ArrayMarshalJSON ==
  \E x \in AtHand :
    x.t = "Arr" /\ Serialized("Arr.MarshalJSON", x, ArrMarshalJSON(x, heap))

UnescapedObjString ==
  \E x \in AtHand :
    x.t = "ref" /\ Said("unescapedObj.String", x, unescapedObjString(x, heap))

UnescapedArrString ==
  \E x \in AtHand :
    x.t = "uarr" /\ Said("unescapedArr.String", x, unescapedArrString(x, heap))

InvalidExprString ==
  \E x \in AtHand :
    x.t = "inv" /\ Said("invalidExpr.String", x, invalidExprString(x))

ObjectString ==
  \E x \in AtHand : x.t = "Obj" /\ Said("Obj.String", x, ObjString(x, heap))

ArrayString ==
  \E x \in AtHand : x.t = "Arr" /\ Said("Arr.String", x, ArrString(x, heap))

Serialize ==
  \/ Marshal
  \/ InvalidExprMarshalJSON
  \/ ObjectMarshalJSON
  \/ ArrayMarshalJSON
  \/ UnescapedObjString
  \/ UnescapedArrString
  \/ InvalidExprString
  \/ ObjectString
  \/ ArrayString

(***************************************************************************)
(* Spec: one builder call on inputs drawn from the sets below, and the     *)
(* serializations of what it was given and what it returned.               *)
(***************************************************************************)
Leaf == {IntV(1), StrV("John"), Bad("e1"), Bad("e2")}
Leaf3 == {IntV(1), StrV("John"), Bad("e1")}
RawKeys == {"data", "name"}
Objs(S) == {Obj(m) : m \in UNION {[D -> S] : D \in SUBSET RawKeys}}
Arrs(S) == {Arr(s) : s \in UNION {[1..n -> S] : n \in 0..MaxLen}}
Raw1 == Leaf \cup Objs(Leaf3) \cup Arrs(Leaf3)
Raw2 ==
  Raw1 \cup {Obj([k \in {key} |-> v]) : key \in RawKeys, v \in Raw1 \ Leaf}
       \cup {Arr(<<v>>) : v \in Raw1 \ Leaf}

Options == {KV("ttl", IntV(1)), KV("ttl", IntV(2)), KV("query", Bad("e2"))}
OptionLists == UNION {[1..n -> Options] : n \in 0..MaxOpts}

ShortLists == UNION {[1..n -> {KV("ttl", IntV(2))}] : n \in 0..MaxOpts}

Vals2 == {IntV(1), Bad("e1"), Obj([k \in {"name"} |-> StrV("John")])}
Rows3 == {<<IntV(1), Bad("e1"), StrV("John")>>,
          <<Bad("e2"), Arr(<<IntV(1)>>), Bad("e1")>>}
Rows4 == {<<IntV(1), StrV("John"), Bad("e1"), Bad("e2")>>,
          <<Bad("e2"), Bad("e1"), StrV("John"), IntV(1)>>}

Next ==
  \/ Fn1(heap = <<>>, [1..1 -> {"query", "ttl"}], [1..1 -> Raw2], OptionLists)
  \/ Fn2(heap = <<>>, [1..2 -> Keys], [1..2 -> Vals2], OptionLists)
  \/ Fn3(heap = <<>>, [1..3 -> Keys], Rows3, OptionLists)
  \/ Fn4(heap = <<>>, [1..4 -> Keys], Rows4, ShortLists)
  \/ Serialize

Spec == Init /\ [][Next]_vars

(***************************************************************************)
(* Session: builder calls one after another, each free to take the nodes   *)
(* built before it as values and as values of its optional parameters,     *)
(* until MaxNodes maps are allocated.                                      *)
(***************************************************************************)
Refs == {unescapedObj(a) : a \in 1..Len(heap)}
Room(n) == Len(heap) + n <= MaxNodes
SessionVals ==
  {IntV(1), Bad("e1")} \cup Refs \cup {Arr(<<r, Bad("e1")>>) : r \in Refs}
  \cup (IF Room(2)
        THEN {Obj([k \in {"data"} |-> v]) : v \in Refs \cup {StrV("John")}}
        ELSE {})
SessionRows(n) == {[i \in 1..n |-> IF i = 1 THEN v ELSE IntV(1)] : v \in SessionVals}
SessionKeys(n) == {[i \in 1..n |-> KeyOrder[Len(KeyOrder) + 1 - i]]}
SessionOptions == {<<>>} \cup {<<KV("ttl", r)>> : r \in Refs \cup {Bad("e2")}}

NextSession ==
  \/ Fn1(Room(1), SessionKeys(1), SessionRows(1), SessionOptions)
  \/ Fn2(Room(1), SessionKeys(2), SessionRows(2), SessionOptions)
  \/ Fn3(Room(1), SessionKeys(3), SessionRows(3), SessionOptions)
  \/ Fn4(Room(1), SessionKeys(4), SessionRows(4), SessionOptions)
  \/ Serialize

SpecSession == Init /\ [][NextSession]_vars

(***************************************************************************)
(* Properties                                                              *)
(***************************************************************************)
Max(S) == CHOOSE x \in S : \A y \in S : y <= x
\* the last place in the list l of pairs that sets key k, 0 when none does
LastIdx(l, k) == Max({0} \cup {i \in 1..Len(l) : l[i].k = k})
KeySet(l) == {l[i].k : i \in 1..Len(l)}
\* the tree wrap makes of the raw value v
Wrapped(v) == LET w == wrap(v, heap) IN Tree(w.e, w.h)
Called == call.op # "none"
\* the map of the node the last builder call returned
Node == heap[call.ret.a]
StringOps == {"unescapedObj.String", "unescapedArr.String", "invalidExpr.String",
              "Obj.String", "Arr.String"}

\* the scalars and invalid nodes below v in the order json encodes them
RECURSIVE InOrder(_, _), InOrderMap(_, _, _), InOrderSeq(_, _, _)
InOrderMap(m, idx, h) ==
  IF idx > Len(KeyOrder) THEN <<>>
  ELSE IF KeyOrder[idx] \notin DOMAIN m THEN InOrderMap(m, idx + 1, h)
  ELSE InOrder(m[KeyOrder[idx]], h) \o InOrderMap(m, idx + 1, h)
InOrderSeq(s, idx, h) ==
  IF idx > Len(s) THEN <<>> ELSE InOrder(s[idx], h) \o InOrderSeq(s, idx + 1, h)
InOrder(v, h) ==
  CASE v.t = "ref" -> InOrderMap(h[v.a], 1, h)
    [] v.t = "uarr" -> InOrderSeq(v.s, 1, h)
    [] OTHER -> <<v>>
\* the error the first invalid node in that order captured
FirstCaptured(v, h) ==
  LET l == InOrder(v, h)
      i == CHOOSE j \in 1..Len(l) :
             l[j].t = "inv" /\ \A x \in 1..(j - 1) : l[x].t # "inv"
  IN  l[i].err

\* the JSON text of a raw value made of scalars, objects and arrays only
RECURSIVE Json(_), JsonMembers(_, _), JsonElements(_, _), Join(_)
JsonMembers(m, idx) ==
  IF idx > Len(KeyOrder) THEN <<>>
  ELSE IF KeyOrder[idx] \notin DOMAIN m THEN JsonMembers(m, idx + 1)
  ELSE <<ToString(KeyOrder[idx]) \o ":" \o Json(m[KeyOrder[idx]])>>
       \o JsonMembers(m, idx + 1)
JsonElements(s, idx) ==
  IF idx > Len(s) THEN <<>> ELSE <<Json(s[idx])>> \o JsonElements(s, idx + 1)
Join(l) ==
  IF l = <<>> THEN ""
  ELSE IF Len(l) = 1 THEN l[1] ELSE l[1] \o "," \o Join(Tail(l))
Json(x) ==
  CASE x.t = "int" -> ToString(x.n)
    [] x.t = "str" -> ToString(x.v)
    [] x.t = "Obj" -> "{" \o Join(JsonMembers(x.m, 1)) \o "}"
    [] x.t = "Arr" -> "[" \o Join(JsonElements(x.s, 1)) \o "]"

\* C1: invalidExpr.MarshalJSON always fails: it returns no bytes and exactly
\* the error the node was constructed with, neither wrapped nor replaced.
C1_InvalidReturnsItsError ==
  ser.op = "invalidExpr.MarshalJSON" =>
    /\ ser.out = ""
    /\ ser.err # NoErr
    /\ ser.err = <<ser.arg.err>>

C1_Witness ==
  /\ ser.op = "invalidExpr.MarshalJSON"
  /\ ser.arg = invalidExpr("e2")
  /\ ser.err = <<"e2">>

\* C2 as stated: json.Marshal of a pre-wrapped object or array that holds an
\* invalid node at some depth fails, with no output, and the error it
\* returns is the error an invalid node of the tree captured.
C2_Original ==
  (/\ ser.op = "json.Marshal"
   /\ ser.arg.t \in {"ref", "uarr"}
   /\ Captured(ser.arg, heap) # {}) =>
    /\ ser.out = ""
    /\ ser.err \in {<<e>> : e \in Captured(ser.arg, heap)}

\* C2 amended: json.Marshal of a pre-wrapped object or array fails exactly
\* when the tree holds an invalid node at some depth; it then yields no
\* output and returns a json.MarshalerError for the type invalidExpr that
\* wraps the error captured by the first invalid node in encoding order.
C2_FailsWithWrappedCapturedError ==
  (ser.op = "json.Marshal" /\ ser.arg.t \in {"ref", "uarr"}) =>
    IF Captured(ser.arg, heap) # {}
    THEN /\ ser.out = ""
         /\ ser.err = MarshalerError("invalidExpr", <<FirstCaptured(ser.arg, heap)>>)
         /\ Cause(ser.err) \in {<<e>> : e \in Captured(ser.arg, heap)}
    ELSE ser.err = NoErr /\ ser.out # ""

\* an invalid node two levels below the serialized root
C2_Witness ==
  /\ ser.op = "json.Marshal"
  /\ ser.arg.t = "ref"
  /\ \E c \in Children(ser.arg, heap) :
       /\ c.t \in {"ref", "uarr"}
       /\ \E d \in Children(c, heap) :
            d.t \in {"ref", "uarr"} /\ Captured(d, heap) # {}
  /\ ser.out = ""
  /\ ser.err # NoErr

\* C3: a builder call never fails: it returns a node whatever its values
\* are, a value that cannot be wrapped is embedded as an invalid node holding
\* its error, and serializing the returned tree reports one error, one of
\* the captured ones, also when the tree holds several invalid nodes.
C3_ErrorsAreDeferred ==
  Called =>
    /\ call.ret.t = "ref"
    /\ call.ret.a \in 1..Len(heap)
    /\ \A k \in DOMAIN Node :
         LET i == LastIdx(call.kvs, k)
             j == LastIdx(call.options, k)
             v == IF j > 0 THEN call.options[j].v ELSE call.kvs[i].v
         IN  v.t = "bad" => Node[k] = invalidExpr(v.err)
    /\ Captured(call.ret, heap)
         \subseteq UNION {Unsupported(call.kvs[i].v, heap) : i \in 1..Len(call.kvs)}
                   \cup UNION {Unsupported(call.options[i].v, heap) :
                                 i \in 1..Len(call.options)}
    /\ (ser.op = "json.Marshal" /\ ser.arg = call.ret) =>
         IF Captured(call.ret, heap) = {} THEN ser.err = NoErr
         ELSE /\ ser.out = ""
              /\ Len(ser.err) = 2
              /\ ser.err[1] = "invalidExpr"
              /\ ser.err[2] \in Captured(call.ret, heap)

\* a returned tree with two invalid nodes of different errors, serialized
C3_Witness ==
  /\ Called
  /\ Cardinality(Captured(call.ret, heap)) = 2
  /\ ser.op = "json.Marshal"
  /\ ser.arg = call.ret
  /\ Len(ser.err) = 2

\* C4: applyOptionals applies the optional parameters in the order given,
\* each once, after the required keys are set; the last write of a key
\* wins, also over the required value of that key.
C4_OptionsInOrderLastWins ==
  Called =>
    /\ call.log = [i \in 1..Len(call.options) |-> i]
    /\ DOMAIN call.pre = KeySet(call.kvs)
    /\ DOMAIN Node = KeySet(call.kvs) \cup KeySet(call.options)
    /\ \A k \in DOMAIN Node :
         LET j == LastIdx(call.options, k)
         IN  IF j > 0 THEN Tree(Node[k], heap) = Wrapped(call.options[j].v)
             ELSE Node[k] = call.pre[k]

\* two optional parameters set "ttl", which is a required key as well
C4_Witness ==
  /\ Called
  /\ call.options = <<KV("ttl", IntV(1)), KV("ttl", IntV(2))>>
  /\ "ttl" \in DOMAIN call.pre
  /\ call.pre["ttl"] # IntV(2)
  /\ Node["ttl"] = IntV(2)

\* C5 as stated: fnN with no optional parameters returns an object whose
\* keys are the supplied keys and that maps each key ki to wrap(vi).
C5_Original ==
  (Called /\ call.options = <<>>) =>
    /\ DOMAIN Node = KeySet(call.kvs)
    /\ \A i \in 1..Len(call.kvs) :
         Tree(Node[call.kvs[i].k], heap) = Wrapped(call.kvs[i].v)

\* C5 amended: fnN with no optional parameters returns an object whose keys
\* are the supplied keys and that maps each key to wrap of the value of the
\* last pair supplying it (each ki to wrap(vi) when the keys are pairwise
\* distinct); fn1("query", 1) serializes to {"query":1}.
C5_MapsKeysToWrappedValues ==
  (Called /\ call.options = <<>>) =>
    /\ DOMAIN Node = KeySet(call.kvs)
    /\ \A i \in 1..Len(call.kvs) :
         LastIdx(call.kvs, call.kvs[i].k) = i =>
           Tree(Node[call.kvs[i].k], heap) = Wrapped(call.kvs[i].v)
    /\ (/\ call.op = "fn1"
        /\ call.kvs = <<KV("query", IntV(1))>>
        /\ ser.op = "json.Marshal"
        /\ ser.arg = call.ret) => (ser.err = NoErr /\ ser.out = "{\"query\":1}")

C5_Witness ==
  /\ call.op = "fn1"
  /\ call.kvs = <<KV("query", IntV(1))>>
  /\ call.options = <<>>
  /\ ser.op = "json.Marshal"
  /\ ser.arg = call.ret
  /\ ser.out = "{\"query\":1}"

\* the results of wrapping x, and of wrapping that result again
Once(x) == wrap(x, heap)
Twice(x) == LET w == Once(x) IN wrap(w.e, w.h)
\* x is made of scalars, raw objects and raw arrays only
Representable(x) == \A n \in Nodes(x, heap) : n.t \in {"int", "str", "Obj", "Arr"}

C7_RawObjectSerializes ==
  /\ (ser.op = "Obj.MarshalJSON" /\ Representable(ser.arg)) =>
       /\ ser.err = NoErr
       /\ ser.out = Json(ser.arg)
       /\ DOMAIN Once(ser.arg).h[Once(ser.arg).e.a] = DOMAIN ser.arg.m
       /\ \A k \in DOMAIN ser.arg.m :
            Tree(Once(ser.arg).h[Once(ser.arg).e.a][k], Once(ser.arg).h)
              = Wrapped(ser.arg.m[k])
  /\ (ser.op = "json.Marshal" /\ ser.arg.t = "ref") =>
       \A i \in 1..Len(call.kvs) :
         (/\ call.kvs[i].v.t = "Obj"
          /\ Representable(call.kvs[i].v)
          /\ LastIdx(call.kvs, call.kvs[i].k) = i
          /\ call.kvs[i].k \notin KeySet(call.options)
          /\ ser.arg = Node[call.kvs[i].k]) => ser.out = Json(call.kvs[i].v)
  /\ (/\ ser.op = "Obj.MarshalJSON"
      /\ ser.arg = Obj([k \in {"data"} |-> Obj([n \in {"name"} |-> StrV("John")])]))
       => ser.out = "{\"data\":{\"name\":\"John\"}}"

C7_Witness ==
  /\ ser.op = "Obj.MarshalJSON"
  /\ ser.arg = Obj([k \in {"data"} |-> Obj([n \in {"name"} |-> StrV("John")])])
  /\ ser.out = "{\"data\":{\"name\":\"John\"}}"

\* C8: a node that exists is never changed: no builder call, optional
\* parameter or serialization removes a node or changes the keys or values
\* of one, be it a node returned earlier or one passed in as an input.
C8_NodesNeverChange ==
  [][/\ Len(heap') >= Len(heap)
     /\ \A a \in 1..Len(heap) : heap'[a] = heap[a]]_vars

\* a builder was given an earlier node as a value and as the value of an
\* optional parameter
C8_Witness ==
  /\ Len(heap) >= 2
  /\ call.ret = unescapedObj(2)
  /\ call.kvs[1].v = unescapedObj(1)
  /\ call.options = <<KV("ttl", unescapedObj(1))>>
  /\ Node["ttl"] = unescapedObj(1)

\* C9: String never reports a failure: it gives the JSON text when the
\* serialization succeeds and the empty string when it fails; the String of
\* an invalid node and of a tree holding one is the empty string.
C9_StringNeverFails ==
  ser.op \in StringOps =>
    /\ ser.err = NoErr
    /\ ser.out = IF jsonMarshal(ser.arg, heap).err = NoErr
                 THEN jsonMarshal(ser.arg, heap).out ELSE ""
    /\ Captured(ser.arg, heap) # {} => ser.out = ""
    /\ Unsupported(ser.arg, heap) # {} => ser.out = ""
    /\ (Captured(ser.arg, heap) = {} /\ Unsupported(ser.arg, heap) = {})
         => ser.out # ""

\* String of a pre-wrapped array that holds an invalid node
C9_Witness ==
  /\ ser.op = "unescapedArr.String"
  /\ Captured(ser.arg, heap) # {}
  /\ ser.out = ""
  /\ ser.err = NoErr

\* two of the keys of the last builder call are equal
Collide == Called /\ Cardinality(KeySet(call.kvs)) < Len(call.kvs)

\* C10 as stated: when two of the N keys are equal the returned object has
\* fewer than N keys and the colliding key maps to the wrapped value of the
\* later pair; when the keys are distinct the object has N keys before the
\* optional parameters are applied.
C10_Original ==
  /\ Collide =>
       /\ Cardinality(DOMAIN Node) < Len(call.kvs)
       /\ \A k \in KeySet(call.kvs) :
            Tree(Node[k], heap) = Wrapped(call.kvs[LastIdx(call.kvs, k)].v)
  /\ (Called /\ ~Collide) => Cardinality(DOMAIN call.pre) = Len(call.kvs)

\* C10 amended: when two of the N keys are equal the object has, before the
\* optional parameters are applied, fewer than N keys and maps the
\* colliding key to the wrapped value of the later pair, and so does the
\* returned object when no optional parameter is given; when the keys are
\* distinct the object has N keys before the optional parameters are
\* applied.
C10_LaterPairWins ==
  /\ Collide =>
       /\ Cardinality(DOMAIN call.pre) < Len(call.kvs)
       /\ DOMAIN call.pre = KeySet(call.kvs)
       /\ \A k \in KeySet(call.kvs) :
            /\ Tree(call.pre[k], heap) = Wrapped(call.kvs[LastIdx(call.kvs, k)].v)
            /\ k \notin KeySet(call.options) => Node[k] = call.pre[k]
       /\ call.options = <<>> => Node = call.pre
  /\ (Called /\ ~Collide) => Cardinality(DOMAIN call.pre) = Len(call.kvs)

\* fn3 with its first and third key equal and their values different
C10_Witness ==
  /\ call.op = "fn3"
  /\ call.kvs[1].k = call.kvs[3].k
  /\ call.kvs[1].k # call.kvs[2].k
  /\ call.kvs[1].v # call.kvs[3].v
  /\ Cardinality(DOMAIN call.pre) = 2
  /\ Tree(call.pre[call.kvs[3].k], heap) = Wrapped(call.kvs[3].v)

====
